---- MODULE Spec2Model ----
(***************************************************************************)
(* Model of nbgrader's InstantiateTests preprocessor                       *)
(* (src/nbgrader/preprocessors/instantiatetests.py).                       *)
(*                                                                         *)
(* Texts (cell sources, lines, code, kernel payloads) are sequences of     *)
(* tokens.  A token is a string: a single character ("#", " ", ";", "[",   *)
(* a digit, a quote, the newline "\n"), an identifier, one of the two      *)
(* delimiter words, or a template placeholder such as "{{snippet}}".       *)
(***************************************************************************)
EXTENDS Integers, Sequences, FiniteSets, TLC

\* ------------------------------------------------------------------ bounds
\* number of preprocess_cell calls made on one preprocessor instance
MaxCells == 2

\* length of the texts the sanitizer is applied to on its own
SanitizeMaxLen == 4

\* ------------------------------------------------------------- text helpers
NL == "\n"
Whitespace == {" ", NL}
Digits == {"0", "1"}

\* str.__contains__ for a one-token needle
Contains(s, tok) == \E i \in 1..Len(s) : s[i] = tok

\* str.find: 0-based index of the first occurrence, -1 when absent
Find(s, tok) ==
    IF Contains(s, tok)
    THEN (CHOOSE i \in 1..Len(s) : s[i] = tok /\ \A j \in 1..(i-1) : s[j] # tok) - 1
    ELSE -1

\* Python slices s[:n] and s[n:] for 0 <= n
Prefix(s, n) == SubSeq(s, 1, IF n > Len(s) THEN Len(s) ELSE n)
Suffix(s, n) == SubSeq(s, n + 1, Len(s))

RECURSIVE LStripSet(_, _)
LStripSet(s, cs) ==
    IF s # <<>> /\ Head(s) \in cs THEN LStripSet(Tail(s), cs) ELSE s

RECURSIVE RStripSet(_, _)
RStripSet(s, cs) ==
    IF s # <<>> /\ s[Len(s)] \in cs THEN RStripSet(SubSeq(s, 1, Len(s) - 1), cs) ELSE s

\* str.strip() and str.strip(chars)
StripSet(s, cs) == RStripSet(LStripSet(s, cs), cs)
Strip(s) == StripSet(s, Whitespace)

\* str.split(sep): always at least one piece, empty pieces are kept
RECURSIVE Split(_, _)
Split(s, sep) ==
    IF ~Contains(s, sep) THEN <<s>>
    ELSE LET i == Find(s, sep)
         IN  <<Prefix(s, i)>> \o Split(Suffix(s, i + 1), sep)

\* sep.join(parts)
RECURSIVE Join(_, _)
Join(parts, sep) ==
    IF parts = <<>> THEN <<>>
    ELSE IF Len(parts) = 1 THEN parts[1]
    ELSE parts[1] \o <<sep>> \o Join(Tail(parts), sep)

\* length of the longest run of tokens of cs at the start of s
RECURSIVE RunLen(_, _)
RunLen(s, cs) ==
    IF s # <<>> /\ Head(s) \in cs THEN 1 + RunLen(Tail(s), cs) ELSE 0

\* length of the match of \[\d+\]\s+ at the start of s, 0 when there is none
MatchIndexPrefix(s) ==
    IF s = <<>> \/ Head(s) # "[" THEN 0
    ELSE LET d    == RunLen(Tail(s), Digits)
             rest == Suffix(s, 1 + d)
         IN  IF d = 0 \/ rest = <<>> \/ Head(rest) # "]" THEN 0
             ELSE LET w == RunLen(Tail(rest), Whitespace)
                  IN  IF w = 0 THEN 0 ELSE 1 + d + 1 + w

\* re.sub(r'\[\d+\]\s+', '', out)
RECURSIVE ReSubIndexPrefix(_)
ReSubIndexPrefix(s) ==
    IF s = <<>> THEN <<>>
    ELSE LET m == MatchIndexPrefix(s)
         IN  IF m > 0 THEN ReSubIndexPrefix(Suffix(s, m))
             ELSE <<Head(s)>> \o ReSubIndexPrefix(Tail(s))

sanitize_R_output(out) ==
    StripSet(StripSet(ReSubIndexPrefix(out), {"\""}), {"'"})


\* --------------------------------------------------------------- templates
\* jinja2 placeholders that occur in the templates of the modelled tests.yml
Placeholders ==
    {"{{snippet}}", "{{salt}}", "{{v.code}}", "{{v.val}}", "{{w.code}}", "{{w.val}}"}

\* jinja2 Environment.from_string(template).render(**bindings): one pass, a
\* bound placeholder is replaced by its value, an unbound one renders empty
RECURSIVE Render(_, _)
Render(template, bindings) ==
    IF template = <<>> THEN <<>>
    ELSE LET t == Head(template)
             r == IF t \in DOMAIN bindings THEN bindings[t]
                  ELSE IF t \in Placeholders THEN <<>>
                  ELSE <<t>>
         IN  r \o Render(Tail(template), bindings)

\* one entry of tests['templates']: a dict with the keys in `keys`
EntryInt ==
    [keys      |-> {"test", "variables", "hash"},
     test      |-> <<"{{v.code}}", "==", "{{v.val}}", NL, "{{w.code}}", "==", "{{w.val}}">>,
     variables |-> << [name |-> "v", snippet |-> <<"{{snippet}}">>],
                      [name |-> "w", snippet |-> <<"len", "{{snippet}}">>] >>,
     hash      |-> <<"hash", "{{snippet}}", "{{salt}}">>]

\* an entry whose test needs no variable
EntryDefault ==
    [keys      |-> {"test", "variables", "hash"},
     test      |-> <<"exists", "{{snippet}}">>,
     variables |-> << >>,
     hash      |-> <<"hash", "{{snippet}}", "{{salt}}">>]

\* an entry without a "hash" item
EntryNoHash ==
    [keys      |-> {"test", "variables"},
     test      |-> <<"{{v.code}}", "==", "{{v.val}}">>,
     variables |-> << [name |-> "v", snippet |-> <<"str", "{{snippet}}">>] >>,
     hash      |-> <<>>]

CatInt == <<"int">>
CatDefault == <<"default">>

DispatchTemplate == <<"type", "{{snippet}}">>
SetupCode == <<"lib", NL, "seed">>

\* self.tests = None
NoneTests ==
    [isNone |-> TRUE, keys |-> {}, dispatch |-> <<>>, setup |-> <<>>,
     templates |-> [c \in {} |-> EntryDefault]]

\* self.tests = {}
EmptyTests == [NoneTests EXCEPT !.isNone = FALSE]

DocFull ==
    [isNone |-> FALSE, keys |-> {"dispatch", "setup", "templates"},
     dispatch |-> DispatchTemplate, setup |-> SetupCode,
     templates |-> [c \in {CatInt, CatDefault} |->
                        IF c = CatInt THEN EntryInt ELSE EntryDefault]]

DocNoSetup ==
    [isNone |-> FALSE, keys |-> {"dispatch", "templates"},
     dispatch |-> DispatchTemplate, setup |-> <<>>,
     templates |-> [c \in {CatInt, CatDefault} |->
                        IF c = CatInt THEN EntryNoHash ELSE EntryDefault]]

DocNoDefault ==
    [isNone |-> FALSE, keys |-> {"dispatch", "templates"},
     dispatch |-> DispatchTemplate, setup |-> <<>>,
     templates |-> [c \in {CatInt} |-> EntryInt]]

DocNoDispatch ==
    [isNone |-> FALSE, keys |-> {"setup", "templates"},
     dispatch |-> <<>>, setup |-> SetupCode,
     templates |-> [c \in {CatInt, CatDefault} |->
                        IF c = CatInt THEN EntryInt ELSE EntryDefault]]

\* what open()/yaml.safe_load find at the path of tests.yml
Files ==
    { [found |-> TRUE,  valid |-> TRUE,  doc |-> DocFull],
      [found |-> TRUE,  valid |-> TRUE,  doc |-> DocNoSetup],
      [found |-> TRUE,  valid |-> TRUE,  doc |-> DocNoDefault],
      [found |-> TRUE,  valid |-> TRUE,  doc |-> DocNoDispatch],
      [found |-> TRUE,  valid |-> FALSE, doc |-> EmptyTests],
      [found |-> FALSE, valid |-> TRUE,  doc |-> EmptyTests] }

\* ------------------------------------------------------------------- cells
autotest_delimiter == "AUTOTEST"
hashed_delimiter == "HASHED"

LineCode == <<"x", "=", "1">>
LineMarkerInCode == <<"x", "=", autotest_delimiter>>
LineDirX == <<"#", " ", autotest_delimiter, " ", "x">>
LineDirHashedY == <<" ", "#", hashed_delimiter, " ", autotest_delimiter, "y">>
LineDirXY == <<"#", autotest_delimiter, " ", "x", ";", " ", "y">>
LineDirXHashedTrailing == <<"#", autotest_delimiter, " ", "x", hashed_delimiter, ";">>

\* the notebook cells handed to preprocess_cell
Cells ==
    { [cell_type |-> "markdown", is_grade |-> FALSE,
       source |-> Join(<<LineDirX, LineCode>>, NL)],
      [cell_type |-> "code", is_grade |-> TRUE,
       source |-> Join(<<LineCode, <<>>, LineMarkerInCode>>, NL)],
      [cell_type |-> "code", is_grade |-> FALSE,
       source |-> Join(<<LineCode, LineDirXHashedTrailing>>, NL)],
      [cell_type |-> "code", is_grade |-> TRUE,
       source |-> Join(<<LineCode, LineDirX, <<>>, LineDirHashedY>>, NL)],
      [cell_type |-> "code", is_grade |-> TRUE,
       source |-> Join(<<LineDirXY, LineCode>>, NL)] }

KernelNames == {"ir", "python3"}

\* InstantiateTests.output_sanitizers
output_sanitizers(kernel_name) ==
    IF kernel_name = "ir" THEN "sanitize_R_output" ELSE "identity"

\* ApplySanitizer, had the text of the message been returned as it came
ApplySanitizerSkipped(which, out) == out

\* applying self.sanitizer (the registered function or lambda x: x)
ApplySanitizer(which, out) ==
    IF which = "sanitize_R_output" THEN sanitize_R_output(out) ELSE out

\* ------------------------------------------------------------------ kernel
\* A message id is compared only with the id of the request in progress
\* (line 325, _poll_for_reply), so an id is modelled by the age of its
\* request: CurrentId for the request in progress, EarlierId for every request
\* before it (of this engine or of the base executor).
CurrentId == 1
EarlierId == 0

\* a message of the kernel on the output channel, without its parent id
Message(type, text, traceback, state) ==
    [msg_type |-> type, text |-> text, traceback |-> traceback,
     execution_state |-> state]

MsgIdle == Message("status", <<>>, <<>>, "idle")
MsgBusy == Message("status", <<>>, <<>>, "busy")
MsgResultInt == Message("execute_result", <<"int">>, <<>>, "")
MsgDisplayR == Message("display_data", <<"[", "1", "]", " ", "\"", "int", "\"">>, <<>>, "")
MsgError == Message("error", <<>>, << <<"Traceback">>, <<"NameError">> >>, "")

WithParent(m, id) ==
    [parent |-> id, msg_type |-> m.msg_type, text |-> m.text,
     traceback |-> m.traceback, execution_state |-> m.execution_state]

NoMsg == WithParent(Message("", <<>>, <<>>, ""), -1)

\* What the kernel sends for one execution request, in this order on the
\* output channel, and the reply on the shell channel: a value; two values,
\* the first in the format of the R console, and then an error; an error; no
\* output.  The kernel may be as slow as it likes, so a kernel that sends
\* nothing is a behaviour of each.
ScriptValue == <<MsgResultInt, MsgIdle>>
ScriptValuesThenError == <<MsgDisplayR, MsgResultInt, MsgError, MsgIdle>>
ScriptError == <<MsgError, MsgIdle>>
ScriptNoOutput == <<MsgBusy, MsgIdle>>

\* the answers of the kernel to the code of one caller: the dispatch code is
\* answered in either format, setup code and variable code in the plain one
KernelScripts(who) ==
    IF who = "_get_templates"
    THEN {ScriptValue, ScriptValuesThenError, ScriptError, ScriptNoOutput}
    ELSE {ScriptValue, ScriptError, ScriptNoOutput}

\* ------------------------------------------------------------------- state
VARIABLES
    \* configuration traits of the preprocessor
    enforce_metadata, timeout_set, raise_on_iopub_timeout,
    \* attributes of the instance
    tests, dispatch_template, sanitizer,
    \* preprocess_cell: position, argument and locals
    pc, cell, lines, li, new_lines, use_hash, snippets, si,
    test_template, variable_snippets, hash_snippet, salt, test_variables, vi,
    \* _execute_code_snippet: caller, argument, locals, position, result
    caller, code, parent_msg_id, more_output, polling_exec_reply, msg, epc, retval,
    \* the kernel: its two channels and what it has still to send
    shell, iopub, pending_reply, pending_out,
    \* the exception preprocess_cell ended with
    exc,
    \* history: calls made, and of the current call the source it started
    \* with, which new_lines are injected, the requests submitted, the file
    \* reads (before the call and now), and of the current request the message
    \* that decided it and whether the kernel has been silent
    ncalls, source0, injected, requests, loads, loads0, decider, silent

cfgVars == <<enforce_metadata, timeout_set, raise_on_iopub_timeout>>
instVars == <<tests, dispatch_template, sanitizer>>
lineVars == <<lines, li, new_lines, injected>>
snipVars == <<use_hash, snippets, si>>
testVars == <<test_template, variable_snippets, hash_snippet, salt, test_variables, vi>>
execVars == <<caller, code, parent_msg_id, more_output, polling_exec_reply, msg,
              epc, retval, decider, silent>>
kernelVars == <<shell, iopub, pending_reply, pending_out>>
histVars == <<source0, requests, loads, loads0>>

vars == <<cfgVars, instVars, pc, cell, lineVars, snipVars, testVars,
          execVars, kernelVars, exc, ncalls, histVars>>

\* an optional text: None, or a text
NoneText == [none |-> TRUE, text |-> <<>>]
SomeText(t) == [none |-> FALSE, text |-> t]

\* an exception: its type and what it carries
Exception(type, c, tb, key) == [type |-> type, code |-> c, traceback |-> tb, key |-> key]
NoException == Exception("", <<>>, <<>>, "")

NoCell == [cell_type |-> "", is_grade |-> FALSE, source |-> <<>>]
NoDecider == [by |-> "", parent |-> -1]

\* the values secrets.token_hex(8) may return
Salts == {"a1b2", "c3d4"}

\* the configurations the preprocessor is constructed with: each trait is
\* varied against (enforce_metadata, a timeout, raise_on_iopub_timeout)
Configs ==
    { [enforce_metadata |-> e, timeout_set |-> t, raise_on_iopub_timeout |-> r] :
        <<e, t, r>> \in { <<TRUE, TRUE, TRUE>>, <<FALSE, TRUE, TRUE>>,
                          <<TRUE, FALSE, TRUE>>, <<TRUE, TRUE, FALSE>> } }

\* no snippet, no test and no request in progress: the locals that are not
\* live hold these values
NoSnippets == use_hash' = FALSE /\ snippets' = <<>> /\ si' = 0

NoTest ==
    /\ test_template' = <<>> /\ variable_snippets' = <<>> /\ hash_snippet' = NoneText
    /\ salt' = "" /\ test_variables' = <<>> /\ vi' = 0

NoRequest ==
    /\ caller' = "" /\ code' = <<>> /\ parent_msg_id' = -1
    /\ more_output' = FALSE /\ polling_exec_reply' = FALSE
    /\ msg' = NoMsg /\ epc' = "" /\ retval' = NoneText
    /\ decider' = NoDecider /\ silent' = FALSE

Init ==
    /\ \E c \in Configs :
        /\ enforce_metadata = c.enforce_metadata
        /\ timeout_set = c.timeout_set
        /\ raise_on_iopub_timeout = c.raise_on_iopub_timeout
    /\ tests = NoneTests
    /\ dispatch_template = NoneText
    /\ sanitizer = "unset"
    /\ pc = "ready"
    /\ cell = NoCell
    /\ lines = <<>> /\ li = 0 /\ new_lines = <<>> /\ injected = <<>>
    /\ use_hash = FALSE /\ snippets = <<>> /\ si = 0
    /\ test_template = <<>> /\ variable_snippets = <<>> /\ hash_snippet = NoneText
    /\ salt = "" /\ test_variables = <<>> /\ vi = 0
    /\ caller = "" /\ code = <<>> /\ parent_msg_id = -1
    /\ more_output = FALSE /\ polling_exec_reply = FALSE
    /\ msg = NoMsg /\ epc = "" /\ retval = NoneText
    /\ decider = NoDecider /\ silent = FALSE
    /\ shell = <<>> /\ iopub = <<>> /\ pending_reply = <<>> /\ pending_out = <<>>
    /\ exc = NoException
    /\ ncalls = 0
    /\ source0 = <<>> /\ requests = <<>> /\ loads = 0 /\ loads0 = 0

\* ------------------------------------------------- _execute_code_snippet
\* Raise, had the lines accumulated so far been stored in the cell before the
\* exception leaves
RaiseAfterCommit(e) ==
    /\ pc' = "raised"
    /\ exc' = e
    /\ cell' = [cell EXCEPT !.source = Join(new_lines, NL)]
    /\ UNCHANGED <<lineVars, snipVars, testVars, ncalls>>

\* an exception leaves preprocess_cell: nothing catches it, the cell is as it was
Raise(e) ==
    /\ pc' = "raised"
    /\ exc' = e
    /\ UNCHANGED <<cell, lineVars, snipVars, testVars, ncalls>>

\* from_code_and_msg, had it taken the text of the message for the traceback
from_code_and_msg_text(c, content) ==
    Exception("CellExecutionError", c, content.text, "")

\* CellExecutionError.from_code_and_msg
from_code_and_msg(c, content) ==
    Exception("CellExecutionError", c, Join(content.traceback, NL), "")

\* the messages of earlier requests keep their ids, which are not the new one
Earlier(channel) == [i \in 1..Len(channel) |-> [channel[i] EXCEPT !.parent = EarlierId]]

\* the kernel handles one request after the other: between two requests of
\* the engine it has sent all it owed for the earlier one
Settled(channel, pending) == Earlier(channel \o pending)

\* lines 281-289: kc.execute(code) and the initial state of the loop
ExecuteCodeSnippet(who, c, tag) ==
    \E script \in KernelScripts(who) :
        /\ caller' = who
        /\ code' = c
        /\ parent_msg_id' = CurrentId
        /\ more_output' = TRUE
        /\ polling_exec_reply' = TRUE
        /\ msg' = NoMsg
        /\ epc' = "top"
        /\ retval' = NoneText
        /\ shell' = [i \in 1..(Len(shell) + Len(pending_reply)) |-> EarlierId]
        /\ iopub' = Settled(iopub, pending_out)
        /\ pending_reply' = <<CurrentId>>
        /\ pending_out' = [i \in 1..Len(script) |-> WithParent(script[i], CurrentId)]
        /\ requests' = Append(requests, tag)
        /\ decider' = NoDecider
        /\ silent' = (shell = <<>> /\ iopub = <<>> /\ pending_reply = <<>> /\ pending_out = <<>>)
        /\ pc' = "exec"

\* an entry of the history of requests: the stage of the request, the line,
\* snippet and variable it is for (0 when it is for none) and the snippet text
Tag(kind, l, s, v, text) ==
    [kind |-> kind, line |-> l, snip |-> s, var |-> v, snippet |-> text]

\* an entry of the history of new_lines: whether the line is injected, and the
\* line and snippet of the cell it stands for
Origin(inj, l, s) == [inj |-> inj, line |-> l, snip |-> s]

InLoop == pc = "exec" /\ epc \in {"top", "out"}

\* line 291: the loop condition fails, line 347
LoopExit ==
    /\ InLoop /\ epc = "top"
    /\ ~(more_output \/ polling_exec_reply)
    /\ epc' = "done"
    /\ retval' = NoneText
    /\ UNCHANGED <<cfgVars, instVars, pc, cell, lineVars, snipVars,
                   testVars, caller, code, parent_msg_id, more_output,
                   polling_exec_reply, msg, decider, silent, kernelVars, exc,
                   ncalls, histVars>>

\* Execute._passed_deadline(deadline) for the clock reading `late` (the
\* deadline lies behind): never without a deadline.  The loop asks only while
\* it polls for the reply and stops asking at the first yes, so each reading
\* is an input of the step
_passed_deadline(late) == timeout_set /\ late

\* lines 292-295: the deadline has passed, stop polling for the reply
PassedDeadline ==
    /\ InLoop /\ epc = "top"
    /\ more_output \/ polling_exec_reply
    /\ polling_exec_reply
    /\ \E late \in BOOLEAN : _passed_deadline(late)
    /\ polling_exec_reply' = FALSE
    /\ UNCHANGED <<cfgVars, instVars, pc, cell, lineVars, snipVars,
                   testVars, caller, code, parent_msg_id, more_output, msg, epc,
                   retval, decider, silent, kernelVars, exc, ncalls, histVars>>

\* Execute._poll_for_reply(msg_id, timeout): the next message of the shell
\* channel if it is the reply to msg_id, else nothing
_poll_for_reply(msg_id) == shell # <<>> /\ Head(shell) = msg_id

\* lines 297-302: poll the shell channel once
PollForReply ==
    /\ InLoop /\ epc = "top"
    /\ more_output \/ polling_exec_reply
    /\ polling_exec_reply
    /\ \E late \in BOOLEAN : ~_passed_deadline(late)
    /\ polling_exec_reply' = ~_poll_for_reply(parent_msg_id)
    /\ shell' = IF shell = <<>> THEN shell ELSE Tail(shell)
    /\ epc' = "out"
    /\ UNCHANGED <<cfgVars, instVars, pc, cell, lineVars, snipVars,
                   testVars, caller, code, parent_msg_id, more_output, msg,
                   retval, decider, silent, iopub, pending_reply, pending_out,
                   exc, ncalls, histVars>>

\* the loop is at line 304
AtOutput ==
    /\ InLoop
    /\ \/ epc = "out"
       \/ epc = "top" /\ ~polling_exec_reply /\ more_output

ResultTypes == {"execute_result", "display_data", "update_display_data"}

\* IsOurs, had the comparison of line 325 been left out
IsOursAlways(m, id) == TRUE

\* line 325: the message belongs to the current request
IsOurs(m, id) == m.parent = id

\* IsIdle, had the execution state of the status message not been looked at
IsIdleAnyStatus(m) == m.msg_type = "status"

\* lines 342-343: the status message that ends the output of a request
IsIdle(m) == m.msg_type = "status" /\ m.execution_state = "idle"

\* lines 325-346 for message m: the effect on the loop, the result and the
\* exception; everything else of the call is left alone
ProcessMessage(m) ==
    IF ~IsOurs(m, parent_msg_id)
    THEN /\ epc' = "top"
         /\ UNCHANGED <<more_output, retval, pc, exc, decider,
                        cell, lineVars, snipVars, testVars, ncalls>>
    ELSE IF m.msg_type \in ResultTypes
    THEN IF sanitizer = "unset"
         THEN /\ Raise(Exception("AttributeError", <<>>, <<>>, "sanitizer"))
              /\ decider' = [by |-> m.msg_type, parent |-> m.parent]
              /\ UNCHANGED <<more_output, retval, epc>>
         ELSE /\ epc' = "done"
              /\ retval' = SomeText(ApplySanitizer(sanitizer, m.text))
              /\ decider' = [by |-> m.msg_type, parent |-> m.parent]
              /\ UNCHANGED <<more_output, pc, exc,
                             cell, lineVars, snipVars, testVars, ncalls>>
    ELSE IF m.msg_type = "error"
    THEN /\ Raise(from_code_and_msg(code, m))
         /\ decider' = [by |-> m.msg_type, parent |-> m.parent]
         /\ UNCHANGED <<more_output, retval, epc>>
    ELSE IF IsIdle(m)
    THEN /\ more_output' = FALSE
         /\ epc' = "top"
         /\ decider' = [by |-> "idle", parent |-> m.parent]
         /\ UNCHANGED <<retval, pc, exc,
                        cell, lineVars, snipVars, testVars, ncalls>>
    ELSE /\ epc' = "top"
         /\ UNCHANGED <<more_output, retval, pc, exc, decider,
                        cell, lineVars, snipVars, testVars, ncalls>>

\* lines 304-311 and 325-346: a message is taken from the output channel
GetMsg ==
    /\ AtOutput /\ more_output
    /\ iopub # <<>>
    /\ msg' = Head(iopub)
    /\ iopub' = Tail(iopub)
    /\ ProcessMessage(Head(iopub))
    /\ UNCHANGED <<cfgVars, instVars, caller, code, parent_msg_id,
                   polling_exec_reply, silent, shell, pending_reply,
                   pending_out, histVars>>

\* lines 311-312: get_msg raises queue.Empty; the except clause names Empty,
\* which this module never imports, so evaluating it raises NameError
GetMsgEmpty ==
    /\ AtOutput /\ more_output
    /\ iopub = <<>>
    /\ Raise(Exception("NameError", <<>>, <<>>, "Empty"))
    /\ UNCHANGED <<cfgVars, instVars, execVars, kernelVars, histVars>>

\* lines 304 and 325-346: more_output is already False, no message is polled
\* and the message of the previous iteration is processed again
ReprocessMsg ==
    /\ AtOutput /\ ~more_output
    /\ ProcessMessage(msg)
    /\ UNCHANGED <<cfgVars, instVars, caller, code, parent_msg_id,
                   polling_exec_reply, msg, silent, kernelVars, histVars>>

\* the kernel sends the reply it owes on the shell channel
KernelReply ==
    /\ pc = "exec"
    /\ pending_reply # <<>>
    /\ shell' = Append(shell, Head(pending_reply))
    /\ pending_reply' = Tail(pending_reply)
    /\ silent' = FALSE
    /\ UNCHANGED <<cfgVars, instVars, pc, cell, lineVars, snipVars,
                   testVars, caller, code, parent_msg_id, more_output,
                   polling_exec_reply, msg, epc, retval, decider,
                   iopub, pending_out, exc, ncalls, histVars>>

\* the kernel publishes the next message it owes on the output channel
KernelEmit ==
    /\ pc = "exec"
    /\ pending_out # <<>>
    /\ iopub' = Append(iopub, Head(pending_out))
    /\ pending_out' = Tail(pending_out)
    /\ silent' = FALSE
    /\ UNCHANGED <<cfgVars, instVars, pc, cell, lineVars, snipVars,
                   testVars, caller, code, parent_msg_id, more_output,
                   polling_exec_reply, msg, epc, retval, decider,
                   shell, pending_reply, exc, ncalls, histVars>>

\* --------------------------------------------------------- preprocess_cell
\* IsDirective, had the test for the comment character been left out
IsDirectiveAnywhere(line) == Contains(line, autotest_delimiter)

\* line 130: the line is expanded, not passed through
IsDirective(line) ==
    ~(~Contains(line, autotest_delimiter) \/ Strip(line)[1] # "#")

\* UseHash, had the hashing marker been looked for in the whole line
UseHashAnywhere(line) == Contains(line, hashed_delimiter)

\* line 159
UseHash(line) ==
    Contains(Prefix(line, Find(line, autotest_delimiter)), hashed_delimiter)

\* Snippets, had the pieces been taken from the last to the first
SnippetsReversed(line) ==
    LET pieces == Split(Suffix(line, Find(line, autotest_delimiter) + 1), ";")
    IN  [i \in 1..Len(pieces) |-> Strip(pieces[Len(pieces) + 1 - i])]

\* line 163
Snippets(line) ==
    LET pieces == Split(Suffix(line, Find(line, autotest_delimiter) + 1), ";")
    IN  [i \in 1..Len(pieces) |-> Strip(pieces[i])]

\* SourceLines, had the empty lines been dropped
SourceLinesNonEmpty(source) == SelectSeq(Split(source, NL), LAMBDA l : l # <<>>)

\* line 125
SourceLines(source) == Split(source, NL)

\* lines 110-125: the base executor runs the cell, then the cell is split
\* into lines
PreprocessCell ==
    /\ pc \in {"ready", "returned", "raised"}
    /\ ncalls < MaxCells
    /\ \E c \in Cells :
        /\ cell' = c
        /\ source0' = c.source
        /\ IF c.cell_type # "code"
           THEN /\ pc' = "returned"
                /\ lines' = <<>> /\ li' = 0
           ELSE /\ pc' = "lines"
                /\ lines' = SourceLines(c.source) /\ li' = 1
    /\ ncalls' = ncalls + 1
    /\ new_lines' = <<>> /\ injected' = <<>>
    /\ NoSnippets /\ NoTest /\ NoRequest
    /\ exc' = NoException
    /\ requests' = <<>> /\ loads0' = loads
    /\ shell' = shell \o pending_reply /\ pending_reply' = <<>>
    /\ iopub' = iopub \o pending_out /\ pending_out' = <<>>
    /\ UNCHANGED <<cfgVars, instVars, loads>>

\* lines 158-163: the directive of the current line
BeginDirective ==
    /\ use_hash' = UseHash(lines[li])
    /\ snippets' = Snippets(lines[li])
    /\ si' = 1
    /\ pc' = "snippets"

\* TestsNotLoaded, had the test of line 150 been left out
TestsNotLoadedAlways(t) == TRUE

\* line 150: if self.tests is None
TestsNotLoaded(t) == t.isNone

\* UngradedAutotest, had the trait been read the wrong way round
UngradedAutotestInverted(is_grade) == ~is_grade /\ ~enforce_metadata

\* line 135: a directive in this cell is refused
UngradedAutotest(is_grade) == ~is_grade /\ enforce_metadata

\* lines 126-150: one line of the cell
ScanLine ==
    /\ pc = "lines" /\ li <= Len(lines)
    /\ IF ~IsDirective(lines[li])
       THEN /\ new_lines' = Append(new_lines, lines[li])
            /\ injected' = Append(injected, Origin(FALSE, li, 0))
            /\ li' = li + 1
            /\ UNCHANGED <<pc, exc, cell, lines, snipVars, testVars, ncalls>>
       ELSE IF UngradedAutotest(cell.is_grade)
       THEN Raise(Exception("RuntimeError", <<>>, <<>>, ""))
       ELSE IF TestsNotLoaded(tests)
       THEN /\ pc' = "load"
            /\ UNCHANGED <<exc, cell, lineVars, snipVars, testVars, ncalls>>
       ELSE /\ BeginDirective
            /\ UNCHANGED <<exc, cell, lineVars, testVars, ncalls>>
    /\ UNCHANGED <<cfgVars, instVars, execVars, kernelVars, histVars>>

\* lines 208-211: the cell source is replaced
FinishCell ==
    /\ pc = "lines" /\ li > Len(lines)
    /\ cell' = [cell EXCEPT !.source = Join(new_lines, NL)]
    /\ pc' = "returned"
    /\ UNCHANGED <<cfgVars, instVars, lineVars, snipVars, testVars,
                   execVars, kernelVars, exc, ncalls, histVars>>

\* HasSetup, had the setup code been overlooked
HasSetupNever(t) == FALSE

\* line 230: if 'setup' in self.tests
HasSetup(t) == "setup" \in t.keys

\* lines 213-231 (and 153-163 when there is no setup code to wait for)
LoadTestTemplateFile ==
    /\ pc = "load"
    /\ loads' = loads + 1
    /\ \E f \in Files :
        LET t == IF f.found THEN f.doc ELSE EmptyTests
        IN  IF ~f.valid
            THEN /\ Raise(Exception("ParserError", <<>>, <<>>, ""))
                 /\ UNCHANGED <<instVars, execVars, kernelVars, requests>>
            ELSE /\ tests' = t
                 /\ IF "dispatch" \notin t.keys
                    THEN /\ Raise(Exception("KeyError", <<>>, <<>>, "dispatch"))
                         /\ UNCHANGED <<dispatch_template, sanitizer, execVars,
                                        kernelVars, requests>>
                    ELSE /\ dispatch_template' = SomeText(t.dispatch)
                         /\ IF HasSetup(t)
                            THEN /\ ExecuteCodeSnippet("_load_test_template_file",
                                                       t.setup, Tag("setup", li, 0, 0, <<>>))
                                 /\ UNCHANGED <<sanitizer, cell, lineVars,
                                                snipVars, testVars, exc, ncalls>>
                            ELSE /\ \E kn \in KernelNames :
                                        sanitizer' = output_sanitizers(kn)
                                 /\ BeginDirective
                                 /\ UNCHANGED <<cell, lineVars, testVars,
                                                execVars, kernelVars, exc, ncalls,
                                                requests>>
    /\ UNCHANGED <<cfgVars, source0, loads0>>

Returned(who) == pc = "exec" /\ epc = "done" /\ caller = who

\* the engine goes on after a request: the locals of the request are gone,
\* and the kernel has sent what it owed for it
AfterRequest ==
    /\ NoRequest
    /\ shell' = shell \o pending_reply /\ pending_reply' = <<>>
    /\ iopub' = iopub \o pending_out /\ pending_out' = <<>>

\* lines 153-163, after _load_test_template_file has run the setup code
ReturnToLoad ==
    /\ Returned("_load_test_template_file")
    /\ new_lines' = Append(new_lines, tests.setup)
    /\ injected' = Append(injected, Origin(TRUE, li, 0))
    /\ \E kn \in KernelNames : sanitizer' = output_sanitizers(kn)
    /\ BeginDirective
    /\ AfterRequest
    /\ UNCHANGED <<cfgVars, tests, dispatch_template, cell, lines, li,
                   testVars, exc, ncalls, histVars>>

\* lines 171-175 and 235-237: the next snippet of the line, or the next line;
\* self.dispatch_template is an attribute only once line 228 has assigned it
NextSnippet ==
    /\ pc = "snippets"
    /\ IF si > Len(snippets)
       THEN /\ li' = li + 1
            /\ pc' = "lines"
            /\ NoSnippets
            /\ UNCHANGED <<execVars, kernelVars, requests, cell, lines, new_lines,
                           injected, testVars, exc, ncalls>>
       ELSE IF dispatch_template.none
       THEN /\ Raise(Exception("AttributeError", <<>>, <<>>, "dispatch_template"))
            /\ UNCHANGED <<execVars, kernelVars, requests>>
       ELSE /\ ExecuteCodeSnippet("_get_templates",
                    Render(dispatch_template.text, [p \in {"{{snippet}}"} |-> snippets[si]]),
                    Tag("dispatch", li, si, 0, snippets[si]))
            /\ UNCHANGED <<li, snipVars, cell, lines, new_lines, injected,
                           testVars, exc, ncalls>>
    /\ UNCHANGED <<cfgVars, instVars, source0, loads, loads0>>

\* line 242: self.tests['templates'].get(dispatch_result, self.tests['templates']['default'])
\* both arguments of get are evaluated before the lookup
TemplatesGetRaises(t, c) ==
    "templates" \notin t.keys \/ CatDefault \notin DOMAIN t.templates

TemplatesGet(t, c) ==
    IF c \in DOMAIN t.templates THEN t.templates[c] ELSE t.templates[CatDefault]

\* lines 247-250: the first key of the entry that is missing, "" when none is
MissingKey(test, hashing) ==
    IF "test" \notin test.keys THEN "test"
    ELSE IF "variables" \notin test.keys THEN "variables"
    ELSE IF hashing /\ "hash" \notin test.keys THEN "hash"
    ELSE ""

\* lines 238-258 and 177-184, after the dispatch code has been executed
ReturnToGetTemplates ==
    /\ Returned("_get_templates")
    /\ IF retval.none
       THEN /\ Raise(Exception("TypeError", <<>>, <<>>, ""))
            /\ UNCHANGED <<execVars, kernelVars>>
       ELSE IF TemplatesGetRaises(tests, retval.text)
       THEN /\ Raise(Exception("KeyError", <<>>, <<>>,
                               IF "templates" \notin tests.keys THEN "templates" ELSE "default"))
            /\ UNCHANGED <<execVars, kernelVars>>
       ELSE LET test == TemplatesGet(tests, retval.text)
            IN  IF MissingKey(test, use_hash) # ""
                THEN /\ Raise(Exception("KeyError", <<>>, <<>>, MissingKey(test, use_hash)))
                     /\ UNCHANGED <<execVars, kernelVars>>
                ELSE /\ test_template' = test.test
                     /\ variable_snippets' = test.variables
                     /\ hash_snippet' = IF use_hash THEN SomeText(test.hash) ELSE NoneText
                     /\ salt' \in Salts
                     /\ test_variables' = <<>>
                     /\ vi' = 1
                     /\ pc' = "vars"
                     /\ AfterRequest
                     /\ UNCHANGED <<cell, lineVars, snipVars, exc, ncalls>>
    /\ UNCHANGED <<cfgVars, instVars, histVars>>

CodeKey(name) == IF name = "v" THEN "{{v.code}}" ELSE "{{w.code}}"
ValKey(name) == IF name = "v" THEN "{{v.val}}" ELSE "{{w.val}}"

\* line 199: the bindings of template.render(snippet=snippet, **test_variables)
TestBindings(snippet, tv) ==
    [p \in {"{{snippet}}"} \cup {CodeKey(tv[i].name) : i \in 1..Len(tv)}
                             \cup {ValKey(tv[i].name) : i \in 1..Len(tv)} |->
        IF p = "{{snippet}}" THEN snippet
        ELSE LET i == CHOOSE j \in 1..Len(tv) : p \in {CodeKey(tv[j].name), ValKey(tv[j].name)}
             IN  IF p = CodeKey(tv[i].name) THEN tv[i].code ELSE tv[i].val]

\* InstantiatedSnippet, had the hash template been left out
InstantiatedSnippetPlain(snippet, variable_snippet, s, hs) ==
    Render(variable_snippet, [p \in {"{{snippet}}"} |-> snippet])

\* lines 262-272: the code executed for one variable of the test
InstantiatedSnippet(snippet, variable_snippet, s, hs) ==
    LET preprocessed_snippet ==
            IF ~hs.none
            THEN Render(hs.text, [p \in {"{{snippet}}", "{{salt}}"} |->
                                     IF p = "{{snippet}}" THEN variable_snippet ELSE <<s>>])
            ELSE variable_snippet
    IN  Render(preprocessed_snippet, [p \in {"{{snippet}}"} |-> snippet])

\* lines 196-206: the lines injected for one snippet
InstantiatedLines(template, snippet, tv) ==
    Split(Render(template, TestBindings(snippet, tv)), NL) \o << <<>> >>

\* lines 185-191 and 260-274, or lines 196-206 when all variables are evaluated
NextVariable ==
    /\ pc = "vars"
    /\ IF vi > Len(variable_snippets)
       THEN LET block == InstantiatedLines(test_template, snippets[si], test_variables)
            IN  /\ new_lines' = new_lines \o block
                /\ injected' = injected \o [i \in 1..Len(block) |-> Origin(TRUE, li, si)]
                /\ si' = si + 1
                /\ pc' = "snippets"
                /\ NoTest
                /\ UNCHANGED <<execVars, kernelVars, requests>>
       ELSE /\ ExecuteCodeSnippet("_evaluate_variable_snippet",
                    InstantiatedSnippet(snippets[si], variable_snippets[vi].snippet,
                                        salt, hash_snippet),
                    Tag("variable", li, si, vi, snippets[si]))
            /\ UNCHANGED <<new_lines, injected, si, testVars>>
    /\ UNCHANGED <<cfgVars, instVars, cell, lines, li, use_hash, snippets,
                   exc, ncalls, source0, loads, loads0>>

\* lines 275-277 and 191-194, after the code of a variable has been executed
ReturnToEvaluateVariable ==
    /\ Returned("_evaluate_variable_snippet")
    /\ IF retval.none
       THEN /\ Raise(Exception("TypeError", <<>>, <<>>, ""))
            /\ UNCHANGED <<execVars, kernelVars>>
       ELSE /\ test_variables' = Append(test_variables,
                    [name |-> variable_snippets[vi].name, code |-> code, val |-> retval.text])
            /\ vi' = vi + 1
            /\ pc' = "vars"
            /\ AfterRequest
            /\ UNCHANGED <<test_template, variable_snippets, hash_snippet, salt,
                           cell, lineVars, snipVars, exc, ncalls>>
    /\ UNCHANGED <<cfgVars, instVars, histVars>>

Next ==
    \/ PreprocessCell
    \/ ScanLine
    \/ FinishCell
    \/ LoadTestTemplateFile
    \/ ReturnToLoad
    \/ NextSnippet
    \/ ReturnToGetTemplates
    \/ NextVariable
    \/ ReturnToEvaluateVariable
    \/ LoopExit
    \/ PassedDeadline
    \/ PollForReply
    \/ GetMsg
    \/ GetMsgEmpty
    \/ ReprocessMsg
    \/ KernelReply
    \/ KernelEmit

Spec == Init /\ [][Next]_vars

\* ------------------------------------------------- the sanitizer on its own
\* the characters of the texts of the kernel the sanitizer is applied to
SanitizeAlphabet == {"[", "]", "0", "1", " ", "\"", "'", "a"}

RECURSIVE TextsUpTo(_)
TextsUpTo(n) ==
    IF n = 0 THEN {<<>>}
    ELSE LET T == TextsUpTo(n - 1)
         IN  T \cup {Append(t, c) : t \in T, c \in SanitizeAlphabet}

\* a result message with any text of the alphabet has been taken from the
\* output channel of an R kernel
InitSanitize ==
    /\ enforce_metadata = TRUE /\ timeout_set = TRUE /\ raise_on_iopub_timeout = TRUE
    /\ tests = NoneTests
    /\ dispatch_template = NoneText
    /\ sanitizer = output_sanitizers("ir")
    /\ pc = "ready"
    /\ cell = NoCell
    /\ lines = <<>> /\ li = 0 /\ new_lines = <<>> /\ injected = <<>>
    /\ use_hash = FALSE /\ snippets = <<>> /\ si = 0
    /\ test_template = <<>> /\ variable_snippets = <<>> /\ hash_snippet = NoneText
    /\ salt = "" /\ test_variables = <<>> /\ vi = 0
    /\ caller = "" /\ code = <<>> /\ parent_msg_id = CurrentId
    /\ more_output = TRUE /\ polling_exec_reply = TRUE
    /\ \E x \in TextsUpTo(SanitizeMaxLen) :
           msg = WithParent(Message("execute_result", x, <<>>, ""), CurrentId)
    /\ epc = "" /\ retval = NoneText
    /\ decider = NoDecider /\ silent = FALSE
    /\ shell = <<>> /\ iopub = <<>> /\ pending_reply = <<>> /\ pending_out = <<>>
    /\ exc = NoException
    /\ ncalls = 0
    /\ source0 = <<>> /\ requests = <<>> /\ loads = 0 /\ loads0 = 0

\* line 337: the sanitizer is applied to the text of the message
Sanitize ==
    /\ retval.none
    /\ retval' = SomeText(ApplySanitizer(sanitizer, msg.text))
    /\ UNCHANGED <<cfgVars, instVars, pc, cell, lineVars, snipVars, testVars,
                   caller, code, parent_msg_id, more_output, polling_exec_reply,
                   msg, epc, decider, silent, kernelVars, exc, ncalls, histVars>>

\* line 337 again: the sanitizer is applied to a message with the text it
\* has returned
SanitizeAgain ==
    /\ ~retval.none
    /\ msg' = [msg EXCEPT !.text = retval.text]
    /\ retval' = SomeText(ApplySanitizer(sanitizer, retval.text))
    /\ UNCHANGED <<cfgVars, instVars, pc, cell, lineVars, snipVars, testVars,
                   caller, code, parent_msg_id, more_output, polling_exec_reply,
                   epc, decider, silent, kernelVars, exc, ncalls, histVars>>

NextSanitize == Sanitize \/ SanitizeAgain

SpecSanitize == InitSanitize /\ [][NextSanitize]_vars

\* -------------------------------------------------------------- properties
\* The properties speak of the cell as the caller sees it: the lines of the
\* text preprocess_cell was called with, and which of them are directives.
LinesOf(text) == Split(text, NL)

\* a directive line: a comment line that holds the autotest marker
DirectiveLine(line) ==
    /\ Contains(line, autotest_delimiter)
    /\ LET t == LStripSet(line, Whitespace) IN t # <<>> /\ Head(t) = "#"

DirectiveLines(text) ==
    LET L == LinesOf(text) IN {i \in 1..Len(L) : DirectiveLine(L[i])}

FirstDirective(text) ==
    LET D == DirectiveLines(text) IN CHOOSE i \in D : \A j \in D : i <= j

\* the exception was raised inside _execute_code_snippet
RaisedInRequest == pc = "raised" /\ epc \in {"top", "out"}

\* C1: whenever preprocess_cell ends by raising, whatever the failure and
\* however many lines, directives and snippets it had expanded before, an
\* exception reaches the caller and the source of the cell is the text the
\* call began with.
C1_FailureAtomicity ==
    pc = "raised" => (exc # NoException /\ cell.source = source0)

\* a request fails after a test block of an earlier snippet was accumulated
C1_RaisedAfterExpansion ==
    /\ pc = "raised" /\ exc.type = "CellExecutionError"
    /\ \E i \in 1..Len(injected) : injected[i].inj /\ injected[i].snip > 0
    /\ Join(new_lines, NL) # source0

\* C2: with enforce_metadata on, a code cell that is not a grade cell and has
\* a directive line gets no further than its first directive line: the call
\* raises the RuntimeError there, the source is unmodified, and the call has
\* read no template file and submitted no request.
C2_GradeCellPolicy ==
    (enforce_metadata /\ cell.cell_type = "code" /\ ~cell.is_grade
        /\ DirectiveLines(source0) # {}) =>
        /\ pc \in {"lines", "raised"}
        /\ li <= FirstDirective(source0)
        /\ pc = "raised" => (exc.type = "RuntimeError" /\ li = FirstDirective(source0))
        /\ cell.source = source0
        /\ loads = loads0
        /\ requests = <<>>

\* the directive of a cell that is not a grade cell is refused by an instance
\* that has loaded its templates in an earlier call, after a line was passed
\* through
C2_RefusedAfterLoad ==
    /\ pc = "raised" /\ exc.type = "RuntimeError"
    /\ enforce_metadata /\ ~cell.is_grade
    /\ ~tests.isNone /\ loads > 0
    /\ new_lines # <<>>

\* C3: a cell that is not a code cell, or a code cell none of whose lines is
\* a comment line holding the marker, is returned with its source as it was;
\* the call reads no template file and submits no request.
C3_NothingToExpand ==
    (ncalls > 0 /\ (cell.cell_type # "code" \/ DirectiveLines(source0) = {})) =>
        /\ pc \in {"lines", "returned"}
        /\ cell.source = source0
        /\ loads = loads0
        /\ requests = <<>>

\* a code cell with the marker in code only, and a blank line, has been
\* rewritten from its lines and returned
C3_MarkerInCodeReturned ==
    /\ pc = "returned" /\ cell.cell_type = "code"
    /\ Contains(source0, autotest_delimiter)
    /\ DirectiveLines(source0) = {}
    /\ Len(new_lines) = 3

\* C4: in _get_templates, when the templates hold the dispatch result c the
\* entry of c is selected, whether or not there is a "default" entry; when
\* they hold no c but "default", the default entry is selected; the KeyError
\* for "default" is raised only when neither c nor "default" is there.
C4_DispatchFallback ==
    [][ (Returned("_get_templates") /\ ~retval.none /\ "templates" \in tests.keys
            /\ pc' # "exec") =>
        LET c == retval.text
            T == tests.templates
            missing == pc' = "raised" /\ exc'.type = "KeyError" /\ exc'.key = "default"
            selected(e) == pc' = "vars" => (test_template' = e.test
                                            /\ variable_snippets' = e.variables)
        IN  /\ c \in DOMAIN T => (~missing /\ selected(T[c]))
            /\ (c \notin DOMAIN T /\ CatDefault \in DOMAIN T) =>
                   (~missing /\ selected(T[CatDefault]))
            /\ missing => (c \notin DOMAIN T /\ CatDefault \notin DOMAIN T)
      ]_vars

\* C5, as the code has it: under the strict timeout policy a call of
\* _execute_code_snippet that returns a value returns the sanitized text of a
\* result message of its own request; a call returns no value exactly when
\* the loop ends after the idle message of its own request, which no result
\* message of the request preceded; a call that raises inside the loop raises
\* the CellExecutionError of an error message of its own request, the
\* NameError of an empty poll of the output channel, or the AttributeError of
\* a result met before a sanitizer is set, and never a TimeoutError.
C5_Outcome ==
    (raise_on_iopub_timeout /\ timeout_set) =>
        /\ (pc = "exec" /\ epc = "done" /\ ~retval.none) =>
               /\ decider.by \in ResultTypes /\ decider.parent = parent_msg_id
               /\ msg.msg_type = decider.by /\ msg.parent = parent_msg_id
               /\ retval.text = IF sanitizer = "sanitize_R_output"
                                THEN sanitize_R_output(msg.text) ELSE msg.text
        /\ (pc = "exec" /\ epc = "done" /\ retval.none) =>
               /\ decider = [by |-> "idle", parent |-> parent_msg_id]
               /\ ~more_output /\ ~polling_exec_reply
        /\ RaisedInRequest =>
               /\ exc.type \in {"CellExecutionError", "NameError", "AttributeError"}
               /\ exc.type = "CellExecutionError" =>
                      decider = [by |-> "error", parent |-> parent_msg_id]
               /\ exc.type = "NameError" => (more_output /\ iopub = <<>>)
               /\ exc.type = "AttributeError" => sanitizer = "unset"

\* the dispatch code of a snippet has been executed under the strict policy
\* and the call has returned no value
C5_DispatchReturnedNoValue ==
    /\ raise_on_iopub_timeout /\ timeout_set
    /\ pc = "exec" /\ epc = "done" /\ caller = "_get_templates"
    /\ retval.none

\* C5, as stated: under the strict timeout policy a call of
\* _execute_code_snippet that returns, returns the sanitized text of a result
\* message of its own request: it never returns no value, also when the
\* request reaches idle without a result message.
C5_NeverReturnsNoValue ==
    (raise_on_iopub_timeout /\ timeout_set /\ pc = "exec" /\ epc = "done") =>
        /\ ~retval.none
        /\ decider.by \in ResultTypes
        /\ decider.parent = parent_msg_id

\* the loop is about to take from the output channel, while it awaits output,
\* an error message of its own request
ErrorObserved ==
    /\ AtOutput /\ more_output
    /\ iopub # <<>>
    /\ Head(iopub).msg_type = "error"
    /\ Head(iopub).parent = parent_msg_id

\* C6: when the loop takes from the output channel, while it awaits output, an
\* error message of its own request, the call ends in that step by raising a
\* CellExecutionError that carries the code submitted for the request and the
\* traceback of the message; nothing is taken from either channel afterwards.
\* For the dispatch execution the code it carries is the rendered dispatch code.
C6_KernelError ==
    /\ [][ (ErrorObserved /\ iopub' = Tail(iopub)) =>
               /\ pc' = "raised"
               /\ exc' = Exception("CellExecutionError", code,
                                   Join(Head(iopub).traceback, NL), "")
         ]_vars
    /\ [][ (pc = "raised" /\ pc' = "raised") => UNCHANGED <<shell, iopub>> ]_vars
    /\ [] ( (pc = "raised" /\ exc.type = "CellExecutionError") =>
               /\ msg.msg_type = "error" /\ msg.parent = parent_msg_id
               /\ exc.code = code
               /\ exc.traceback = Join(msg.traceback, NL)
               /\ caller = "_get_templates" =>
                      exc.code = Render(tests.dispatch,
                                        [p \in {"{{snippet}}"} |-> snippets[si]]) )

\* preprocess_cell has failed with the error of the dispatch code of snippet y
C6_DispatchErrorRaised ==
    /\ pc = "raised" /\ exc.type = "CellExecutionError"
    /\ caller = "_get_templates"
    /\ exc.code = <<"type", "y">>
    /\ exc.traceback = <<"Traceback", NL, "NameError">>

\* C7: the value a request returns, the error it raises and its completion by
\* idle are caused by a message of the output channel with the id of that
\* request; a message with another id, also a result, error or idle message
\* an earlier request left on the channel, is discarded and changes nothing
\* of the outcome of the current request.
C7_ForeignNeverDecides ==
    /\ [][ (pc = "exec" /\ iopub # <<>> /\ iopub' = Tail(iopub)
               /\ Head(iopub).parent # parent_msg_id) =>
               /\ UNCHANGED <<pc, exc, retval, more_output, polling_exec_reply, decider>>
               /\ epc' = "top"
         ]_vars
    /\ [] ( /\ (pc = "exec" /\ epc = "done" /\ ~retval.none) =>
                   (decider.by \in ResultTypes /\ decider.parent = parent_msg_id)
            /\ (pc = "raised" /\ exc.type = "CellExecutionError") =>
                   (decider.by = "error" /\ decider.parent = parent_msg_id)
            /\ (pc = "exec" /\ ~more_output) =>
                   (decider.by = "idle" /\ decider.parent = parent_msg_id) )

\* the loop has just discarded the error message an earlier request left on
\* the channel, behind the result message it left too, and still awaits its own
C7_ForeignErrorDiscarded ==
    /\ pc = "exec" /\ epc = "top"
    /\ msg.msg_type = "error" /\ msg.parent = EarlierId
    /\ parent_msg_id = CurrentId
    /\ more_output /\ retval.none /\ decider = NoDecider

\* C8: with a timeout configured and raise_on_iopub_timeout on, a call whose
\* kernel has sent no reply and no message of the output channel at all does
\* not return; when it ends, it ends by raising a TimeoutError.
C8_SilentKernelTimesOut ==
    (timeout_set /\ raise_on_iopub_timeout /\ silent) =>
        /\ ~(pc = "exec" /\ epc = "done")
        /\ RaisedInRequest => exc.type = "TimeoutError"

\* the snippets of a directive line as its author reads them: the pieces after
\* the marker, between the semicolons, without the blanks around them
PiecesAfterMarker(line) ==
    LET at     == CHOOSE i \in 1..Len(line) : line[i] = autotest_delimiter
        pieces == Split(SubSeq(line, at + 1, Len(line)), ";")
    IN  [i \in 1..Len(pieces) |-> Strip(pieces[i])]

\* request b is the one that follows request a in source order, in a cell
\* whose directive lines are D with the snippets P[line]: the next variable of
\* the same snippet, or the dispatch of the next snippet of the line, or the
\* dispatch of the first snippet of the next directive line
FollowsInSourceOrder(a, b, D, P) ==
    \/ /\ b.kind = "variable" /\ a.kind \in {"dispatch", "variable"}
       /\ b.line = a.line /\ b.snip = a.snip /\ b.var = a.var + 1
    \/ /\ b.kind = "dispatch" /\ a.kind \in {"dispatch", "variable"}
       /\ b.line = a.line /\ b.snip = a.snip + 1
    \/ /\ b.kind = "dispatch" /\ a.kind \in {"dispatch", "variable"}
       /\ a.snip = Len(P[a.line])
       /\ b.line \in D /\ b.line > a.line
       /\ \A k \in D : ~(a.line < k /\ k < b.line)
       /\ b.snip = 1
    \/ /\ a.kind = "setup" /\ b.kind = "dispatch"
       /\ b.line = a.line /\ b.snip = 1

\* the requests and the injected lines of the current call are in source order
InSourceOrder ==
    LET L == LinesOf(source0)
        D == DirectiveLines(source0)
        P == [i \in D |-> PiecesAfterMarker(L[i])]
    IN  /\ \A i \in 1..Len(requests) :
               LET r == requests[i]
               IN  /\ r.line \in D
                   /\ r.kind = "setup" => i = 1
                   /\ r.kind # "setup" =>
                          /\ r.snip \in 1..Len(P[r.line])
                          /\ r.snippet = P[r.line][r.snip]
                          /\ r.kind = "dispatch" <=> r.var = 0
                   /\ i = 1 => /\ \A k \in D : r.line <= k
                               /\ r.kind = "dispatch" => r.snip = 1
                   /\ i > 1 => FollowsInSourceOrder(requests[i - 1], r, D, P)
        /\ \A i \in 1..Len(injected) :
               injected[i].inj /\ injected[i].snip > 0 =>
                   LET b == injected[i]
                   IN  /\ \E j \in 1..Len(requests) :
                              /\ requests[j].kind = "dispatch"
                              /\ requests[j].line = b.line
                              /\ requests[j].snip = b.snip
                       /\ (i = 1 \/ injected[i - 1] # b) =>
                              \A k \in 1..Len(P[b.line][b.snip]) :
                                  Contains(new_lines[i], P[b.line][b.snip][k])
                       /\ \A j \in 1..(i - 1) :
                              \/ injected[j].line < b.line
                              \/ injected[j].line = b.line /\ injected[j].snip <= b.snip

\* C9: the requests of one cell are submitted in source order: directive
\* lines from the top, the snippets of a line from the left, for each snippet
\* the dispatch code first and then its variables as declared; a request is
\* submitted only when no request is in progress; and the injected blocks
\* stand in new_lines in the order of their snippets, each holding its snippet.
C9_ExpansionOrder ==
    /\ [][ Len(requests') > Len(requests) => pc # "exec" ]_vars
    /\ [] (requests # <<>> => InSourceOrder)

\* a cell with two snippets on a line is expanded: setup code, then for the
\* first snippet the dispatch code and two variables, then the second snippet
C9_TwoSnippetsExpanded ==
    /\ pc = "returned"
    /\ Len(requests) >= 5
    /\ requests[1].kind = "setup"
    /\ requests[3].kind = "variable" /\ requests[4].kind = "variable"
    /\ requests[4].snippet = <<"x">>
    /\ requests[5].kind = "dispatch" /\ requests[5].snip = 2
    /\ requests[5].snippet = <<"y">>

\* the elements of s at the positions where keep holds
RECURSIVE KeepWhere(_, _)
KeepWhere(s, keep) ==
    IF s = <<>> \/ keep = <<>> THEN <<>>
    ELSE (IF Head(keep) THEN <<Head(s)>> ELSE <<>>) \o KeepWhere(Tail(s), Tail(keep))

\* the origin of each line of the text joined from `entries`: an entry that
\* holds newlines gives as many lines as it has pieces
RECURSIVE OriginOfLines(_, _)
OriginOfLines(entries, origins) ==
    IF entries = <<>> THEN <<>>
    ELSE [i \in 1..Len(Split(Head(entries), NL)) |-> Head(origins)]
             \o OriginOfLines(Tail(entries), Tail(origins))

\* C10: when a code cell has been expanded, the lines of the new source that
\* are not injected are the lines of the old source that are not directives,
\* unchanged and in order, blank lines too; no directive line is left, and
\* each directive line has its block where it stood among the other lines.
C10_PassthroughPreserved ==
    (pc = "returned" /\ cell.cell_type = "code") =>
        LET L == LinesOf(source0)
            F == LinesOf(cell.source)
            O == OriginOfLines(new_lines, injected)
        IN  /\ Len(F) = Len(O)
            /\ KeepWhere(F, [p \in 1..Len(O) |-> ~O[p].inj])
                 = KeepWhere(L, [i \in 1..Len(L) |-> i \notin DirectiveLines(source0)])
            /\ \A p \in 1..Len(O) :
                   /\ O[p].line \in 1..Len(L)
                   /\ ~O[p].inj => (F[p] = L[O[p].line] /\ O[p].line \notin DirectiveLines(source0))
                   /\ O[p].inj => O[p].line \in DirectiveLines(source0)
                   /\ \A i \in DirectiveLines(source0) : F[p] # L[i]
                   /\ \A q \in 1..(p - 1) : O[q].line <= O[p].line
            /\ \A i \in DirectiveLines(source0) : \E p \in 1..Len(O) : O[p].inj /\ O[p].line = i

\* a cell with a line of code, a directive, a blank line and a second
\* directive has been expanded, the setup code of two lines injected first
C10_ExpandedAroundBlankLine ==
    /\ pc = "returned" /\ cell.cell_type = "code"
    /\ cell.source # source0
    /\ Cardinality(DirectiveLines(source0)) = 2
    /\ \E i \in 1..Len(new_lines) : new_lines[i] = <<>> /\ ~injected[i].inj
    /\ \E i \in 1..Len(new_lines) : injected[i].inj /\ Contains(new_lines[i], NL)

\* the pieces of a directive line that are not empty, in order
NonEmptyPieces(line) == SelectSeq(PiecesAfterMarker(line), LAMBDA piece : piece # <<>>)

\* C11: the snippets of a directive line for which dispatch code is submitted
\* and a block is injected are its non-empty pieces, in order: the k-th
\* snippet expanded is the k-th non-empty piece, and an empty piece causes no
\* request and no injected line.
C11_EmptyPiecesDropped ==
    LET L == LinesOf(source0)
    IN  /\ \A i \in 1..Len(requests) :
               requests[i].kind # "setup" =>
                   LET r == requests[i]
                       pieces == NonEmptyPieces(L[r.line])
                   IN  /\ r.snippet # <<>>
                       /\ r.snip \in 1..Len(pieces)
                       /\ r.snippet = pieces[r.snip]
        /\ \A i \in 1..Len(injected) :
               (injected[i].inj /\ injected[i].snip > 0) =>
                   injected[i].snip \in 1..Len(NonEmptyPieces(L[injected[i].line]))

\* the hashing marker stands before the autotest marker of the line
HashRequested(line) ==
    LET at == CHOOSE i \in 1..Len(line) : line[i] = autotest_delimiter
    IN  \E j \in 1..(at - 1) : line[j] = hashed_delimiter

\* a directive line is being expanded: its mode and snippets are known
ExpandingDirective ==
    \/ pc \in {"snippets", "vars"}
    \/ pc = "exec" /\ caller \in {"_get_templates", "_evaluate_variable_snippet"}

\* C12: while a directive line is expanded, hashing is on exactly when the
\* hashing marker stands before the autotest marker of that line, whatever
\* stands after it and whatever the mode of the lines before was; the hash
\* template is taken for a snippet exactly when hashing is on.
C12_HashModeSelection ==
    ExpandingDirective =>
        LET line == LinesOf(source0)[li]
        IN  /\ use_hash <=> HashRequested(line)
            /\ (pc = "vars" \/ (pc = "exec" /\ caller = "_evaluate_variable_snippet")) =>
                   (~hash_snippet.none <=> HashRequested(line))

\* a snippet that holds the hashing marker, on a line without the marker
\* before the autotest marker, is expanded without hashing
C12_HashTokenInSnippet ==
    /\ pc = "vars" /\ si = 1
    /\ snippets[si] = <<"x", hashed_delimiter>>
    /\ ~use_hash /\ hash_snippet.none

\* C13: the sanitizer of the R kernel is idempotent: a text it has returned
\* is returned unchanged when the sanitizer is applied to it again.
C13_SanitizerIdempotent ==
    ~retval.none => sanitize_R_output(retval.text) = retval.text

\* C14: when there is no template file the store becomes the empty document
\* and the load does not raise; every directive met from then on, in this
\* cell and in later ones, fails with the KeyError of the missing "default"
\* category (a directive refused for its cell not being a grade cell aside).
C14_MissingFileFailsOnDefault ==
    (tests = EmptyTests /\ pc = "raised" /\ exc.type # "RuntimeError") =>
        (exc.type = "KeyError" /\ exc.key = "default")

\* C15, as the code has it: _load_test_template_file submits a request to the
\* kernel exactly when the document it has read holds "dispatch" and "setup":
\* the request is the setup code, and the load waits for it in the poll loop;
\* for every other document, and when the file is missing or invalid, the load
\* leaves the kernel alone.
C15_LoadRunsSetupOnly ==
    [][ loads' > loads =>
            LET submitted == Len(requests') > Len(requests)
            IN  /\ submitted <=> (~tests'.isNone /\ {"dispatch", "setup"} \subseteq tests'.keys)
                /\ submitted =>
                       /\ Len(requests') = Len(requests) + 1
                       /\ requests'[Len(requests')].kind = "setup"
                       /\ pc' = "exec" /\ caller' = "_load_test_template_file"
                       /\ code' = tests'.setup
                       /\ pending_out' # <<>>
                /\ ~submitted => UNCHANGED <<kernelVars, requests>>
      ]_vars

\* the load has submitted the setup code, got its reply from the shell
\* channel and taken a message from the output channel
C15_LoadPolledForSetup ==
    /\ pc = "exec" /\ caller = "_load_test_template_file"
    /\ code = SetupCode
    /\ ~polling_exec_reply /\ shell = <<>> /\ pending_reply = <<>>
    /\ msg # NoMsg /\ msg.parent = parent_msg_id

\* C15, as stated: _load_test_template_file submits no request and polls no
\* channel, whatever the document, so the engine is never in the poll loop on
\* behalf of the load.
C15_LoadSubmitsNothing ==
    ~(pc = "exec" /\ caller = "_load_test_template_file")

\* the request a step submits, if it submits one
Submits(kinds) ==
    /\ Len(requests') > Len(requests)
    /\ requests'[Len(requests')].kind \in kinds

\* C16, as the code has it: the file is read only at a directive reached
\* while the store is unset, at most once in a call, and again in a later call
\* when the read before ended with invalid YAML; a store once set is never
\* replaced; the setup code is submitted only by the step that sets the store,
\* so at most once in a session, and dispatch and variable requests are
\* submitted only once a store with a dispatch template is set, so after it.
C16_LazyLoad ==
    /\ [](loads0 <= loads /\ loads <= loads0 + 1 /\ loads <= ncalls)
    /\ []((\E i \in 1..Len(requests) : requests[i].kind # "setup")
              => ~tests.isNone /\ ~dispatch_template.none)
    /\ [][ /\ loads' # loads =>
                /\ loads' = loads + 1
                /\ tests.isNone
                /\ pc = "lines" \/ pc = "load"
                /\ DirectiveLine(lines[li])
           /\ ~tests.isNone => tests' = tests
           /\ Submits({"setup"}) =>
                /\ tests.isNone /\ ~tests'.isNone
                /\ loads' = loads + 1
                /\ requests' = <<Tag("setup", li, 0, 0, <<>>)>>
           /\ Submits({"dispatch", "variable"}) =>
                /\ ~tests.isNone /\ "dispatch" \in tests.keys
                /\ loads' = loads
      ]_vars

\* the first call ended with invalid YAML; the second read the file again,
\* ran the setup code and went on to the dispatch request
C16_LoadedOnSecondRead ==
    /\ loads = 2 /\ ~tests.isNone
    /\ Len(requests) >= 2
    /\ requests[1].kind = "setup" /\ requests[2].kind = "dispatch"

\* C16, as stated: the template file is read at most once in a session
C16_ReadAtMostOnce ==
    loads <= 1

\* the code of a variable for a snippet, and the same code inside the hash
\* template of the modelled tests.yml with a salt
PlainCode(variable_snippet, snippet) ==
    Render(variable_snippet, [p \in {"{{snippet}}"} |-> snippet])

HashedCode(variable_snippet, snippet, s) ==
    <<"hash">> \o PlainCode(variable_snippet, snippet) \o <<s>>

EvaluatingVariable ==
    /\ pc \in {"exec", "raised"}
    /\ caller = "_evaluate_variable_snippet"

C18_EndsInTerminalState ==
    (timeout_set /\ pc = "raised" /\ caller # "" /\ epc # "done") =>
        exc.type \in {"CellExecutionError", "TimeoutError"}

\* C19, as stated: an output poll that finds no message ends the request
\* only when the loop has stopped waiting for the reply; while the reply is
\* still awaited an empty poll raises nothing.
C19_EmptyPollBenignWhileAwaitingReply ==
    (RaisedInRequest /\ decider = NoDecider /\ iopub = <<>>) =>
        ~polling_exec_reply

\* a step inside one call of _execute_code_snippet
WithinCall == InLoop /\ pc' = "exec" /\ requests' = requests

\* C20, as the code has it: within a call neither flag is set back to true
\* and the reply channel is not polled once polling_exec_reply is false; the
\* output of a request can end before its reply is observed, and then the
\* loop awaits the reply only: the state is entered only by the idle status
\* message of the request, that message stays in msg and is handled again in
\* each iteration without being polled, which changes nothing, and no
\* message is taken from the output channel.
C20_ProtocolStates ==
    /\ [](InLoop /\ ~more_output =>
              /\ msg.parent = parent_msg_id
              /\ msg.msg_type = "status" /\ msg.execution_state = "idle"
              /\ decider = [by |-> "idle", parent |-> parent_msg_id])
    /\ [](pc = "exec" /\ epc = "done" /\ retval.none =>
              ~more_output /\ ~polling_exec_reply)
    /\ [][ WithinCall =>
              /\ more_output' => more_output
              /\ polling_exec_reply' => polling_exec_reply
              /\ ~polling_exec_reply => Len(shell') >= Len(shell)
              /\ ~more_output =>
                     /\ Len(iopub') >= Len(iopub)
                     /\ UNCHANGED <<msg, retval, decider, exc>>
      ]_vars

\* the idle status message of the request was handled before its reply was
\* observed: the iteration has polled the reply channel, polls no output and
\* is about to handle the idle message again
C20_AwaitingReplyOnly ==
    /\ pc = "exec" /\ epc = "out"
    /\ polling_exec_reply /\ ~more_output
    /\ msg = WithParent(MsgIdle, parent_msg_id)

\* C20, as stated: the loop is never in a state where it still awaits the
\* reply but no longer awaits output.
C20_NeverAwaitsReplyOnly ==
    ~(InLoop /\ polling_exec_reply /\ ~more_output)

\* C21, as stated: whenever the loop has handled a result-bearing message of
\* the current request, the sanitizer was selected before, so the call has
\* returned the sanitized text; this for every request, the setup code of the
\* first load included.
C21_SanitizerSelected ==
    (pc \in {"exec", "raised"} /\ decider.by \in ResultTypes
        /\ decider.parent = parent_msg_id) =>
        /\ sanitizer # "unset"
        /\ pc = "exec" => ~retval.none

\* C22, as stated: between the calls of preprocess_cell, also after a call
\* that failed, a store that is marked as loaded has its dispatch template
\* and its sanitizer set.
C22_LoadedImpliesInitialised ==
    (pc \in {"returned", "raised"} /\ ~tests.isNone) =>
        /\ ~dispatch_template.none
        /\ sanitizer # "unset"

====
